---- MODULE Spec2Model ----
(***************************************************************************)
(* A model of Passenger's Session / StandardSession                        *)
(* (ext/common/Session.h): one session object that owns a stream file      *)
(* descriptor and a close callback, driven by a single caller.             *)
(*                                                                         *)
(* Every operation of the class is one action.  The variable lastCall      *)
(* records, for the operation that ran last, its name, its argument, how   *)
(* it ended (normal return or the exception thrown) and the primitives of  *)
(* the collaborators (MessageChannel, oxt::syscalls, the close callback)   *)
(* it invoked, in order.                                                   *)
(***************************************************************************)
EXTENDS Integers, Sequences, FiniteSets, TLC

\* ---------------------------------------------------------------- bounds
\* Largest byte value the caller puts in a buffer (bytes are 0..MaxByte).
MaxByte == 1
\* Longest buffer handed to sendHeaders / sendBodyBlock.
MaxBufLen == 1
\* Most bytes the stream carries in one run.
MaxWire == 2
\* How many times one run sees syscalls::close() interrupted.
MaxInterruptedCloses == 1
\* The longest timeout, in milliseconds, a caller sets.
MaxMsec == 1

\* ------------------------------------------------------------- constants
\* The value of fd / getStream() once the stream is closed or discarded.
Absent == -1
\* The descriptor handed to the constructor.
Handle == 3
\* Number of bytes of the length prefix that writeScalar puts before the data.
PrefixSize == 1

Bytes == 0 .. MaxByte

RECURSIVE SeqsUpTo(_)
SeqsUpTo(n) ==
    IF n = 0 THEN {<< >>}
    ELSE LET shorter == SeqsUpTo(n - 1)
         IN  shorter \cup {Append(s, b) : s \in {t \in shorter : Len(t) = n - 1}, b \in Bytes}

\* The buffers (pointer + size) a caller may pass.
Buffers == SeqsUpTo(MaxBufLen)

\* errno values the system calls report.
Errnos == {"EIO", "EBADF", "EPIPE", "ENOTCONN", "ENOSPC", "ENOTSOCK"}

\* The timeouts a caller sets: none (0) or MaxMsec milliseconds.
Msecs == {0, MaxMsec}

\* The identifiers a pool gives a session.
PoolIdentifiers == {"", "pool"}

VARIABLES
    fd,             \* StandardSession::fd
    streamOpen,     \* is the descriptor Handle still open in the process
    readerOpen,     \* the stream's read direction has not been shut down
    writerOpen,     \* the stream's write direction has not been shut down
    wire,           \* the bytes written to the stream so far
    alive,          \* the session object has not been destroyed
    callbackCalls,  \* how many times closeCallback() has been invoked
    closeCalls,     \* how many times syscalls::close() has been invoked
    discarded,      \* discardStream() has been called
    poolIdentifier, \* Session::poolIdentifier
    lastCall,       \* the operation that ran last
    lastPrim        \* the channel or system call primitive that operation invoked last

vars == << fd, streamOpen, readerOpen, writerOpen, wire, alive, callbackCalls,
           closeCalls, discarded, poolIdentifier, lastCall, lastPrim >>

\* ---------------------------------------------------- outcomes of a call
Returned == [kind |-> "ok", errno |-> "none", msg |-> ""]

IOException(m) == [kind |-> "IOException", errno |-> "none", msg |-> m]

SystemException(m, e) == [kind |-> "SystemException", errno |-> e, msg |-> m]

thread_interrupted == [kind |-> "thread_interrupted", errno |-> "none", msg |-> ""]

Call(op, arg, result, prims) ==
    [op |-> op, arg |-> arg, result |-> result, prims |-> prims]

\* One invocation of a primitive: its name, the descriptor it was given and
\* how it came back ("ok" or "0", an errno, or "thread_interrupted").
Prim(name, handle, outcome) == [name |-> name, handle |-> handle, outcome |-> outcome]

\* The operation invoked no primitive.
NoPrim == [name |-> "none", handle |-> "none", outcome |-> "none"]

\* ------------------------------------------------------- MessageChannel
\* The length prefix: the size as PrefixSize bytes, most significant first.
RECURSIVE BigEndian(_, _)
BigEndian(n, width) ==
    IF width = 0 THEN << >>
    ELSE Append(BigEndian(n \div 256, width - 1), n % 256)

\* What writeScalar puts on the stream for one message.
Frame(data) == BigEndian(Len(data), PrefixSize) \o data

RECURSIVE FromBigEndian(_)
FromBigEndian(bs) ==
    IF bs = << >> THEN 0
    ELSE FromBigEndian(SubSeq(bs, 1, Len(bs) - 1)) * 256 + bs[Len(bs)]

\* What the reading side makes of a byte string: the messages it can take
\* off it one after the other, and the bytes left over.
RECURSIVE ReadScalars(_)
ReadScalars(bs) ==
    IF Len(bs) < PrefixSize THEN [msgs |-> << >>, rest |-> bs]
    ELSE LET n == FromBigEndian(SubSeq(bs, 1, PrefixSize))
         IN  IF Len(bs) < PrefixSize + n THEN [msgs |-> << >>, rest |-> bs]
             ELSE LET tail == ReadScalars(SubSeq(bs, PrefixSize + n + 1, Len(bs)))
                  IN  [msgs |-> << SubSeq(bs, PrefixSize + 1, PrefixSize + n) >> \o tail.msgs,
                       rest |-> tail.rest]

\* The bytes a write primitive sends for data.
Encoded(prim, data) == IF prim = "writeScalar" THEN Frame(data) ELSE data

StrictPrefixes(bs) == {SubSeq(bs, 1, n) : n \in 0 .. (Len(bs) - 1)}

\* MessageChannel(stream).writeScalar / writeRaw: the whole encoding is
\* written and the call returns, or the write fails (SystemException) or is
\* interrupted (thread_interrupted) after part of it, possibly nothing, went
\* out.  Nothing goes out on a descriptor that is -1 or closed, or on a
\* shut-down write side.
ChannelWrite(stream, prim, data, r) ==
    LET usable == stream # Absent /\ streamOpen /\ writerOpen
        all    == Encoded(prim, data)
    IN  /\ Len(wire) + Len(all) <= MaxWire
        /\ \/ /\ r = Returned
              /\ usable
              /\ wire' = wire \o all
           \/ /\ r.kind = "SystemException"
              /\ r.errno = (IF stream = Absent \/ ~streamOpen THEN "EBADF" ELSE IF ~writerOpen THEN "EPIPE" ELSE "EIO")
              /\ \E part \in (IF usable THEN StrictPrefixes(all) \cup {<< >>} ELSE {<< >>}) :
                    wire' = wire \o part
           \/ /\ r = thread_interrupted
              /\ \E part \in (IF usable THEN StrictPrefixes(all) \cup {<< >>} ELSE {<< >>}) :
                    wire' = wire \o part

\* ------------------------------------------------------------- Session
getStream == fd

Init ==
    /\ fd = Handle
    /\ streamOpen = TRUE
    /\ readerOpen = TRUE
    /\ writerOpen = TRUE
    /\ wire = << >>
    /\ alive = TRUE
    /\ callbackCalls = 0
    /\ closeCalls = 0
    /\ discarded = FALSE
    /\ poolIdentifier = ""
    /\ lastCall = Call("StandardSession", << >>, Returned, << >>)
    /\ lastPrim = NoPrim

HeadersBrief == "An error occured while writing headers to the request handler"

BodyBrief == "An error occured while sending the request body to the request handler"

WriteResults(brief) ==
    {Returned, thread_interrupted} \cup {SystemException(brief, e) : e \in Errnos}

\* syscalls::shutdown(fd, how) and what the caller gets back: 0, or -1 with
\* errno set (reported here as the errno), or the thread_interrupted it throws.
\* how is "RD" or "WR".
Shutdown(how, ret) ==
    /\ \/ /\ ret = "0"
          /\ streamOpen
          /\ readerOpen' = (readerOpen /\ how # "RD")
          /\ writerOpen' = (writerOpen /\ how # "WR")
       \/ /\ ret = (IF streamOpen THEN "ENOTCONN" ELSE "EBADF")
          /\ UNCHANGED << readerOpen, writerOpen >>
       \/ /\ ret = "thread_interrupted"
          /\ streamOpen
          /\ UNCHANGED << readerOpen, writerOpen >>

ShutdownReturns == {"0", "thread_interrupted"} \cup Errnos

\* syscalls::close(fd): 0 and the descriptor is closed; or -1 with errno set,
\* where POSIX leaves open whether the descriptor is still open; or it throws
\* thread_interrupted, the descriptor's state again being unspecified.
Close(ret) ==
    /\ closeCalls' = closeCalls + 1
    /\ \/ /\ ret = "0"
          /\ streamOpen
          /\ streamOpen' = FALSE
       \/ /\ ret \in (IF streamOpen THEN {"EIO", "ENOSPC"} ELSE {"EBADF"})
          /\ streamOpen' \in {streamOpen, FALSE}
       \/ /\ ret = "thread_interrupted"
          /\ streamOpen
          /\ closeCalls < MaxInterruptedCloses
          /\ streamOpen' \in {streamOpen, FALSE}

CloseReturns == {"0", "thread_interrupted"} \cup Errnos

\* closeStream() without its test of fd.
closeStreamBodyUnguarded(r, prims) ==
    \E ret \in CloseReturns :
    /\ prims = << "close" >>
    /\ r = (IF ret = "thread_interrupted" THEN thread_interrupted
            ELSE IF ret = "0" THEN Returned
            ELSE IF ret = "EIO"
            THEN SystemException("A write operation on the session stream failed", ret)
            ELSE SystemException("Cannot close the session stream", ret))
    /\ Close(ret)
    /\ lastPrim' = Prim("close", fd, ret)
    /\ fd' = (IF ret = "thread_interrupted" THEN fd ELSE Absent)

\* A closeStream() that reports every failure of close with the same message.
closeStreamBodyOneMessage(r, prims) ==
    IF fd # Absent
    THEN \E ret \in CloseReturns :
         /\ prims = << "close" >>
         /\ r = (IF ret = "thread_interrupted" THEN thread_interrupted
                 ELSE IF ret = "0" THEN Returned
                 ELSE SystemException("Cannot close the session stream", ret))
         /\ Close(ret)
         /\ lastPrim' = Prim("close", fd, ret)
         /\ fd' = (IF ret = "thread_interrupted" THEN fd ELSE Absent)
    ELSE /\ r = Returned
         /\ prims = << >>
         /\ lastPrim' = NoPrim
         /\ UNCHANGED << fd, streamOpen, closeCalls >>

\* The body of StandardSession::closeStream(), ending as r and having invoked
\* the primitives prims.  It sets fd, streamOpen, closeCalls and lastPrim.
\* An interrupted syscalls::close() throws before `fd = -1` is reached.
closeStreamBody(r, prims) ==
    IF fd # Absent
    THEN \E ret \in CloseReturns :
         /\ prims = << "close" >>
         /\ r = (IF ret = "thread_interrupted" THEN thread_interrupted
                 ELSE IF ret = "0" THEN Returned
                 ELSE IF ret = "EIO"
                 THEN SystemException("A write operation on the session stream failed", ret)
                 ELSE SystemException("Cannot close the session stream", ret))
         /\ Close(ret)
         /\ lastPrim' = Prim("close", fd, ret)
         /\ fd' = (IF ret = "thread_interrupted" THEN fd ELSE Absent)
    ELSE /\ r = Returned
         /\ prims = << >>
         /\ lastPrim' = NoPrim
         /\ UNCHANGED << fd, streamOpen, closeCalls >>

CloseResults ==
    {Returned, thread_interrupted}
        \cup {SystemException("A write operation on the session stream failed", e) : e \in Errnos}
        \cup {SystemException("Cannot close the session stream", e) : e \in Errnos}

\* A destructor that only invokes the callback.
DestroyWithoutClose ==
    /\ alive
    /\ UNCHANGED poolIdentifier
    /\ alive' = FALSE
    /\ callbackCalls' = callbackCalls + 1
    /\ lastCall' = Call("~StandardSession", << >>, Returned, << "closeCallback" >>)
    /\ lastPrim' = NoPrim
    /\ UNCHANGED << fd, streamOpen, closeCalls, readerOpen, writerOpen, wire, discarded >>

\* ~StandardSession(): closeStream(), then closeCallback(); an exception
\* thrown by closeStream() leaves the destructor before the callback runs.
Destroy ==
    /\ alive
    /\ UNCHANGED poolIdentifier
    /\ alive' = FALSE
    /\ \E r \in CloseResults, prims \in {<< >>, << "close" >>} :
          /\ closeStreamBody(r, prims)
          /\ IF r = Returned
             THEN /\ callbackCalls' = callbackCalls + 1
                  /\ lastCall' = Call("~StandardSession", << >>, r, Append(prims, "closeCallback"))
             ELSE /\ UNCHANGED callbackCalls
                  /\ lastCall' = Call("~StandardSession", << >>, r, prims)
    /\ UNCHANGED << readerOpen, writerOpen, wire, discarded >>

\* MessageChannel(stream).setReadTimeout / setWriteTimeout: the socket option
\* is set and the call returns ("0"), or it fails with an errno, which the
\* channel throws as a SystemException.  It fails on a descriptor that is -1
\* or closed.  The timeout itself lives in the socket; nothing in the session
\* reads it back.
ChannelSetTimeout(stream, ret) ==
    \/ /\ ret = "0"
       /\ stream # Absent
       /\ streamOpen
    \/ ret = (IF stream = Absent \/ ~streamOpen THEN "EBADF" ELSE "ENOTSOCK")

SetTimeoutReturns == {"0"} \cup Errnos

\* A setReaderTimeout() that does nothing once fd is -1.
setReaderTimeoutGuarded(msec) ==
    /\ alive
    /\ IF fd # Absent
       THEN \E ret \in SetTimeoutReturns :
            /\ ChannelSetTimeout(fd, ret)
            /\ lastPrim' = Prim("setReadTimeout", fd, ret)
            /\ lastCall' = Call("setReaderTimeout", << msec >>,
                                IF ret = "0" THEN Returned
                                ELSE SystemException("Cannot set read timeout for socket", ret),
                                << "setReadTimeout" >>)
       ELSE /\ lastPrim' = NoPrim
            /\ lastCall' = Call("setReaderTimeout", << msec >>, Returned, << >>)
    /\ UNCHANGED << fd, streamOpen, readerOpen, writerOpen, wire, alive, callbackCalls,
                    closeCalls, discarded, poolIdentifier >>

setReaderTimeout(msec) ==
    /\ alive
    /\ \E ret \in SetTimeoutReturns :
          /\ ChannelSetTimeout(fd, ret)
          /\ lastPrim' = Prim("setReadTimeout", fd, ret)
          /\ lastCall' = Call("setReaderTimeout", << msec >>,
                              IF ret = "0" THEN Returned
                              ELSE SystemException("Cannot set read timeout for socket", ret),
                              << "setReadTimeout" >>)
    /\ UNCHANGED << fd, streamOpen, readerOpen, writerOpen, wire, alive, callbackCalls,
                    closeCalls, discarded, poolIdentifier >>

setWriterTimeout(msec) ==
    /\ alive
    /\ \E ret \in SetTimeoutReturns :
          /\ ChannelSetTimeout(fd, ret)
          /\ lastPrim' = Prim("setWriteTimeout", fd, ret)
          /\ lastCall' = Call("setWriterTimeout", << msec >>,
                              IF ret = "0" THEN Returned
                              ELSE SystemException("Cannot set write timeout for socket", ret),
                              << "setWriteTimeout" >>)
    /\ UNCHANGED << fd, streamOpen, readerOpen, writerOpen, wire, alive, callbackCalls,
                    closeCalls, discarded, poolIdentifier >>

getPoolIdentifier == poolIdentifier

setPoolIdentifier(id) ==
    /\ alive
    /\ poolIdentifier' = id
    /\ lastPrim' = NoPrim
    /\ lastCall' = Call("setPoolIdentifier", << id >>, Returned, << >>)
    /\ UNCHANGED << fd, streamOpen, readerOpen, writerOpen, wire, alive, callbackCalls,
                    closeCalls, discarded >>

\* A shutdownWriter() that passes SHUT_RD.
shutdownWriterReadSide ==
    /\ alive
    /\ UNCHANGED poolIdentifier
    /\ IF fd # Absent
       THEN \E ret \in ShutdownReturns :
            /\ Shutdown("RD", ret)
            /\ lastPrim' = Prim("shutdown", fd, ret)
            /\ lastCall' = Call("shutdownWriter", << >>,
                                IF ret = "0" THEN Returned
                                ELSE IF ret = "thread_interrupted" THEN thread_interrupted
                                ELSE SystemException("Cannot shutdown the writer stream", ret),
                                << "shutdown" >>)
       ELSE /\ lastCall' = Call("shutdownWriter", << >>, Returned, << >>)
            /\ lastPrim' = NoPrim
            /\ UNCHANGED << readerOpen, writerOpen >>
    /\ UNCHANGED << fd, streamOpen, wire, alive, callbackCalls, closeCalls, discarded >>

shutdownReader ==
    /\ alive
    /\ UNCHANGED poolIdentifier
    /\ IF fd # Absent
       THEN \E ret \in ShutdownReturns :
            /\ Shutdown("RD", ret)
            /\ lastPrim' = Prim("shutdown", fd, ret)
            /\ lastCall' = Call("shutdownReader", << >>,
                                IF ret = "0" THEN Returned
                                ELSE IF ret = "thread_interrupted" THEN thread_interrupted
                                ELSE SystemException("Cannot shutdown the reader stream", ret),
                                << "shutdown" >>)
       ELSE /\ lastCall' = Call("shutdownReader", << >>, Returned, << >>)
            /\ lastPrim' = NoPrim
            /\ UNCHANGED << readerOpen, writerOpen >>
    /\ UNCHANGED << fd, streamOpen, wire, alive, callbackCalls, closeCalls, discarded >>

shutdownWriter ==
    /\ alive
    /\ UNCHANGED poolIdentifier
    /\ IF fd # Absent
       THEN \E ret \in ShutdownReturns :
            /\ Shutdown("WR", ret)
            /\ lastPrim' = Prim("shutdown", fd, ret)
            /\ lastCall' = Call("shutdownWriter", << >>,
                                IF ret = "0" THEN Returned
                                ELSE IF ret = "thread_interrupted" THEN thread_interrupted
                                ELSE SystemException("Cannot shutdown the writer stream", ret),
                                << "shutdown" >>)
       ELSE /\ lastCall' = Call("shutdownWriter", << >>, Returned, << >>)
            /\ lastPrim' = NoPrim
            /\ UNCHANGED << readerOpen, writerOpen >>
    /\ UNCHANGED << fd, streamOpen, wire, alive, callbackCalls, closeCalls, discarded >>

closeStream ==
    /\ alive
    /\ UNCHANGED poolIdentifier
    /\ \E r \in CloseResults, prims \in {<< >>, << "close" >>} :
          /\ closeStreamBody(r, prims)
          /\ lastCall' = Call("closeStream", << >>, r, prims)
    /\ UNCHANGED << readerOpen, writerOpen, wire, alive, callbackCalls, discarded >>

\* A discardStream() that closes the descriptor it gives up.
discardStreamClosing ==
    /\ alive
    /\ UNCHANGED poolIdentifier
    /\ fd' = Absent
    /\ discarded' = TRUE
    /\ streamOpen' = FALSE
    /\ closeCalls' = closeCalls + 1
    /\ lastCall' = Call("discardStream", << >>, Returned, << "close" >>)
    /\ lastPrim' = Prim("close", fd, "0")
    /\ UNCHANGED << readerOpen, writerOpen, wire, alive, callbackCalls >>

\* A discardStream() that leaves descriptor 0 in fd.
discardStreamToZero ==
    /\ alive
    /\ UNCHANGED poolIdentifier
    /\ fd' = 0
    /\ discarded' = TRUE
    /\ lastCall' = Call("discardStream", << >>, Returned, << >>)
    /\ lastPrim' = NoPrim
    /\ UNCHANGED << streamOpen, readerOpen, writerOpen, wire, alive, callbackCalls,
                    closeCalls >>

discardStream ==
    /\ alive
    /\ UNCHANGED poolIdentifier
    /\ fd' = Absent
    /\ discarded' = TRUE
    /\ lastCall' = Call("discardStream", << >>, Returned, << >>)
    /\ lastPrim' = NoPrim
    /\ UNCHANGED << streamOpen, readerOpen, writerOpen, wire, alive, callbackCalls,
                    closeCalls >>

\* A sendHeaders() that sends the buffer with writeRaw.
sendHeadersRaw(headers) ==
    /\ alive
    /\ UNCHANGED poolIdentifier
    /\ LET stream == getStream
       IN  IF stream = Absent
           THEN /\ lastCall' = Call("sendHeaders", headers,
                                    IOException("Cannot write headers to the request handler because the I/O stream has already been closed or discarded."),
                                    << >>)
                /\ lastPrim' = NoPrim
                /\ UNCHANGED << fd, streamOpen, readerOpen, writerOpen, wire, alive,
                                callbackCalls, closeCalls, discarded >>
           ELSE \E r \in WriteResults(HeadersBrief) :
                /\ ChannelWrite(stream, "writeRaw", headers, r)
                /\ lastPrim' = Prim("writeRaw", stream, r.kind)
                /\ lastCall' = Call("sendHeaders", headers, r, << "writeRaw" >>)
                /\ UNCHANGED << fd, streamOpen, readerOpen, writerOpen, alive,
                                callbackCalls, closeCalls, discarded >>

\* A sendHeaders() whose handler catches every exception of the write and
\* throws a SystemException for it.
sendHeadersCatchAll(headers) ==
    /\ alive
    /\ UNCHANGED poolIdentifier
    /\ LET stream == getStream
       IN  IF stream = Absent
           THEN /\ lastCall' = Call("sendHeaders", headers,
                                    IOException("Cannot write headers to the request handler because the I/O stream has already been closed or discarded."),
                                    << >>)
                /\ lastPrim' = NoPrim
                /\ UNCHANGED << fd, streamOpen, readerOpen, writerOpen, wire, alive,
                                callbackCalls, closeCalls, discarded >>
           ELSE \E r \in WriteResults(HeadersBrief) :
                /\ ChannelWrite(stream, "writeScalar", headers, r)
                /\ lastPrim' = Prim("writeScalar", stream, r.kind)
                /\ lastCall' = Call("sendHeaders", headers,
                                    IF r = thread_interrupted
                                    THEN SystemException(HeadersBrief, "EINTR") ELSE r,
                                    << "writeScalar" >>)
                /\ UNCHANGED << fd, streamOpen, readerOpen, writerOpen, alive,
                                callbackCalls, closeCalls, discarded >>

sendHeaders(headers) ==
    /\ alive
    /\ UNCHANGED poolIdentifier
    /\ LET stream == getStream
       IN  IF stream = Absent
           THEN /\ lastCall' = Call("sendHeaders", headers,
                                    IOException("Cannot write headers to the request handler because the I/O stream has already been closed or discarded."),
                                    << >>)
                /\ lastPrim' = NoPrim
                /\ UNCHANGED << fd, streamOpen, readerOpen, writerOpen, wire, alive,
                                callbackCalls, closeCalls, discarded >>
           ELSE \E r \in WriteResults(HeadersBrief) :
                /\ ChannelWrite(stream, "writeScalar", headers, r)
                /\ lastPrim' = Prim("writeScalar", stream, r.kind)
                /\ lastCall' = Call("sendHeaders", headers, r, << "writeScalar" >>)
                /\ UNCHANGED << fd, streamOpen, readerOpen, writerOpen, alive,
                                callbackCalls, closeCalls, discarded >>

\* A sendBodyBlock() that gives up the stream when the write fails.
sendBodyBlockDropOnError(block) ==
    /\ alive
    /\ UNCHANGED poolIdentifier
    /\ LET stream == getStream
       IN  IF stream = Absent
           THEN /\ lastCall' = Call("sendBodyBlock", block,
                                    IOException("Cannot write request body block to the request handler because the I/O channel has already been closed or discarded."),
                                    << >>)
                /\ lastPrim' = NoPrim
                /\ UNCHANGED << fd, streamOpen, readerOpen, writerOpen, wire, alive,
                                callbackCalls, closeCalls, discarded >>
           ELSE \E r \in WriteResults(BodyBrief) :
                /\ ChannelWrite(stream, "writeRaw", block, r)
                /\ lastPrim' = Prim("writeRaw", stream, r.kind)
                /\ lastCall' = Call("sendBodyBlock", block, r, << "writeRaw" >>)
                /\ fd' = (IF r.kind = "SystemException" THEN Absent ELSE fd)
                /\ UNCHANGED << streamOpen, readerOpen, writerOpen, alive,
                                callbackCalls, closeCalls, discarded >>

\* A sendBodyBlock() without its test of the stream.
sendBodyBlockUnchecked(block) ==
    /\ alive
    /\ UNCHANGED poolIdentifier
    /\ LET stream == getStream
       IN  \E r \in WriteResults(BodyBrief) :
           /\ ChannelWrite(stream, "writeRaw", block, r)
           /\ lastPrim' = Prim("writeRaw", stream, r.kind)
           /\ lastCall' = Call("sendBodyBlock", block, r, << "writeRaw" >>)
           /\ UNCHANGED << fd, streamOpen, readerOpen, writerOpen, alive,
                           callbackCalls, closeCalls, discarded >>

\* A sendBodyBlock() that sends the block as a length-framed message.
sendBodyBlockFramed(block) ==
    /\ alive
    /\ UNCHANGED poolIdentifier
    /\ LET stream == getStream
       IN  IF stream = Absent
           THEN /\ lastCall' = Call("sendBodyBlock", block,
                                    IOException("Cannot write request body block to the request handler because the I/O channel has already been closed or discarded."),
                                    << >>)
                /\ lastPrim' = NoPrim
                /\ UNCHANGED << fd, streamOpen, readerOpen, writerOpen, wire, alive,
                                callbackCalls, closeCalls, discarded >>
           ELSE \E r \in WriteResults(BodyBrief) :
                /\ ChannelWrite(stream, "writeScalar", block, r)
                /\ lastPrim' = Prim("writeScalar", stream, r.kind)
                /\ lastCall' = Call("sendBodyBlock", block, r, << "writeScalar" >>)
                /\ UNCHANGED << fd, streamOpen, readerOpen, writerOpen, alive,
                                callbackCalls, closeCalls, discarded >>

sendBodyBlock(block) ==
    /\ alive
    /\ UNCHANGED poolIdentifier
    /\ LET stream == getStream
       IN  IF stream = Absent
           THEN /\ lastCall' = Call("sendBodyBlock", block,
                                    IOException("Cannot write request body block to the request handler because the I/O channel has already been closed or discarded."),
                                    << >>)
                /\ lastPrim' = NoPrim
                /\ UNCHANGED << fd, streamOpen, readerOpen, writerOpen, wire, alive,
                                callbackCalls, closeCalls, discarded >>
           ELSE \E r \in WriteResults(BodyBrief) :
                /\ ChannelWrite(stream, "writeRaw", block, r)
                /\ lastPrim' = Prim("writeRaw", stream, r.kind)
                /\ lastCall' = Call("sendBodyBlock", block, r, << "writeRaw" >>)
                /\ UNCHANGED << fd, streamOpen, readerOpen, writerOpen, alive,
                                callbackCalls, closeCalls, discarded >>

Next ==
    \/ \E headers \in Buffers : sendHeaders(headers)
    \/ \E block \in Buffers : sendBodyBlock(block)
    \/ shutdownReader
    \/ shutdownWriter
    \/ closeStream
    \/ discardStream
    \/ Destroy
    \/ \E msec \in Msecs : setReaderTimeout(msec)
    \/ \E msec \in Msecs : setWriterTimeout(msec)
    \/ \E id \in PoolIdentifiers : setPoolIdentifier(id)

Spec == Init /\ [][Next]_vars

\* ------------------------------------------------------------ properties
\* The operations that leave the stream alone once fd is -1.
QuietOps == {"closeStream", "shutdownReader", "shutdownWriter"}

SendOps == {"sendHeaders", "sendBodyBlock"}

\* The step just taken was the destructor, and it called syscalls::close().
DestructorClosed == lastCall.op = "~StandardSession" /\ lastCall.prims # << >> /\ lastCall.prims[1] = "close"

\* C1: the close callback has not been invoked while the session lives, and
\* has been invoked exactly once when it has been destroyed, whatever
\* operations came before.
C1_CallbackExactlyOnceAtDestruction ==
    /\ alive => callbackCalls = 0
    /\ ~alive => callbackCalls = 1

\* C2: a destructor whose close attempt failed with an error has still
\* invoked the close callback exactly once.
C2_CallbackAfterFailedClose ==
    (DestructorClosed /\ lastCall.result.kind = "SystemException") => callbackCalls = 1

\* C3: syscalls::close() is invoked at most once on the session's descriptor
\* over the whole life of the session.
C3_CloseAtMostOnce == closeCalls <= 1

\* C4: after a closeStream() call has finished, however it ended,
\* getStream() is -1.
C4_AbsentAfterCloseStream == lastCall.op = "closeStream" => getStream = Absent

\* C5: with fd already -1, closeStream(), shutdownReader() and
\* shutdownWriter() return normally, invoke no primitive and change nothing
\* of the session or the stream.
C5_QuietOnceAbsent ==
    [][(fd = Absent /\ lastCall'.op \in QuietOps) =>
          /\ lastCall'.result = Returned
          /\ lastCall'.prims = << >>
          /\ UNCHANGED << fd, streamOpen, readerOpen, writerOpen, closeCalls, callbackCalls, wire >>]_vars

\* A second closeStream() right after one that closed the stream.
C5_Witness ==
    /\ alive /\ fd = Absent /\ ~discarded /\ closeCalls = 1
    /\ lastCall.op = "closeStream" /\ lastCall.prims = << >> /\ lastCall.result = Returned

\* C6: discardStream() sets fd to -1 without calling syscalls::close(); from
\* then on no operation of the session, its destruction included, calls
\* close or changes whether the descriptor is open; and the destructor that
\* follows invokes the close callback, for the first and only time.
C6_DiscardNeverCloses ==
    [][/\ lastCall'.op = "discardStream" => (fd' = Absent /\ lastCall'.prims = << >>)
       /\ discarded' => (closeCalls' = closeCalls /\ streamOpen' = streamOpen)
       /\ (discarded' /\ ~alive') => callbackCalls' = 1]_vars

\* Destroyed after a discardStream() on the open stream: still open, never
\* closed, callback invoked once.
C6_Witness ==
    /\ ~alive /\ discarded /\ streamOpen /\ closeCalls = 0 /\ callbackCalls = 1
    /\ lastCall.op = "~StandardSession"

\* C7: a destroyed session on which discardStream() was never called has had
\* syscalls::close() invoked on its descriptor.
C7_ClosedUnlessDiscarded == (~alive /\ ~discarded) => closeCalls >= 1

\* The destructor itself closed the stream: no closeStream() came before.
C7_Witness ==
    /\ ~alive /\ ~discarded /\ DestructorClosed /\ closeCalls = 1 /\ ~streamOpen

\* C8: with fd already -1, sendHeaders() and sendBodyBlock() throw
\* IOException, invoke no write primitive, put nothing on the stream and
\* change nothing of the session.
C8_SendOnAbsentFails ==
    [][(fd = Absent /\ lastCall'.op \in SendOps) =>
          /\ lastCall'.result.kind = "IOException"
          /\ lastCall'.prims = << >>
          /\ UNCHANGED << fd, streamOpen, readerOpen, writerOpen, wire, alive,
                          callbackCalls, closeCalls, discarded >>]_vars

\* sendBodyBlock() after the stream was closed.
C8_Witness ==
    /\ fd = Absent /\ closeCalls = 1 /\ lastCall.op = "sendBodyBlock"
    /\ lastCall.result.kind = "IOException" /\ lastCall.arg # << >>

\* C9: a sendHeaders(buf) that returns normally has called writeScalar once
\* and no other primitive, and what it added to the stream reads back as
\* exactly one length-framed message, whose payload is buf.
C9_HeadersOneFrame ==
    [][(lastCall'.op = "sendHeaders" /\ lastCall'.result = Returned) =>
          /\ lastCall'.prims = << "writeScalar" >>
          /\ Len(wire') >= Len(wire)
          /\ SubSeq(wire', 1, Len(wire)) = wire
          /\ ReadScalars(SubSeq(wire', Len(wire) + 1, Len(wire'))) =
                [msgs |-> << lastCall'.arg >>, rest |-> << >>]]_vars

\* sendHeaders of the one-byte buffer 1 on a fresh stream.
C9_Witness ==
    /\ lastCall.op = "sendHeaders" /\ lastCall.result = Returned
    /\ lastCall.arg = << 1 >> /\ wire = Frame(<< 1 >>) /\ Len(wire) = PrefixSize + 1

\* C10: a sendBodyBlock(b) that returns normally has appended exactly b to
\* the stream through writeRaw; when the call before it was a
\* sendBodyBlock(a) that returned normally, the stream then ends in a
\* followed by b.
C10_BodyBlocksConcatenate ==
    [][(lastCall'.op = "sendBodyBlock" /\ lastCall'.result = Returned) =>
          /\ lastCall'.prims = << "writeRaw" >>
          /\ wire' = wire \o lastCall'.arg
          /\ (lastCall.op = "sendBodyBlock" /\ lastCall.result = Returned) =>
                LET a    == lastCall.arg
                    b    == lastCall'.arg
                    base == SubSeq(wire, 1, Len(wire) - Len(a))
                IN  /\ Len(wire) >= Len(a)
                    /\ wire' = (base \o a) \o b]_vars

\* sendBodyBlock of the byte 1, then of the byte 0.
C10_Witness ==
    /\ lastCall.op = "sendBodyBlock" /\ lastCall.result = Returned
    /\ lastCall.arg = << 0 >> /\ wire = << 1, 0 >>


\* C11: when closeStream() throws because close failed, the exception carries
\* the message of a failed write exactly when close reported EIO, and the
\* message of a failed close for every other errno; the two messages differ.
C11_WriteFailureDistinguished ==
    (lastCall.op = "closeStream" /\ lastCall.result.kind = "SystemException") =>
        /\ lastCall.result.errno = "EIO" =>
              lastCall.result.msg = "A write operation on the session stream failed"
        /\ lastCall.result.errno # "EIO" =>
              lastCall.result.msg = "Cannot close the session stream"

\* A closeStream() whose close failed with EIO.
C11_Witness ==
    /\ lastCall.op = "closeStream" /\ lastCall.result.kind = "SystemException"
    /\ lastCall.result.errno = "EIO"
    /\ lastCall.result.msg = "A write operation on the session stream failed"

\* C13: getStream() is always the descriptor given to the constructor or -1,
\* and once it is -1 it is -1 after every later operation.
C13_HandleOneWay ==
    [][/\ fd \in {Handle, Absent}
       /\ fd' \in {Handle, Absent}
       /\ fd = Absent => fd' = Absent]_vars

\* An operation ran on a session whose stream had been discarded earlier.
C13_Witness ==
    /\ fd = Absent /\ discarded /\ alive /\ lastCall.op \in (SendOps \cup QuietOps)

\* C17: when the close callback has been invoked, it was the last thing its
\* destructor did, after the close attempt, and getStream() is -1.
C17_CallbackFindsHandleAbsent ==
    /\ callbackCalls > 0 => (~alive /\ fd = Absent)
    /\ (lastCall.prims # << >> /\ lastCall.prims[Len(lastCall.prims)] = "closeCallback") =>
          (lastCall.op = "~StandardSession" /\ fd = Absent /\ callbackCalls = 1)
    /\ \A i \in 1 .. (Len(lastCall.prims) - 1) : lastCall.prims[i] # "closeCallback"

\* The destructor closed the stream itself and then invoked the callback.
C17_Witness ==
    /\ DestructorClosed /\ lastCall.prims = << "close", "closeCallback" >>
    /\ callbackCalls = 1 /\ fd = Absent


\* The operations during which a thread interruption can arrive.
InterruptibleOps == SendOps \cup QuietOps

\* C12: when the primitive an operation invoked ended in a thread
\* interruption, the operation ends by throwing thread_interrupted: it neither
\* returns normally nor throws a SystemException or an IOException.
C12_InterruptionPropagates ==
    (lastCall.op \in InterruptibleOps /\ lastPrim.outcome = "thread_interrupted") =>
        lastCall.result = thread_interrupted

\* A sendHeaders() interrupted in writeScalar.
C12_Witness ==
    /\ lastCall.op = "sendHeaders" /\ lastPrim.name = "writeScalar"
    /\ lastPrim.outcome = "thread_interrupted" /\ lastCall.result = thread_interrupted

\* C14: a shutdownWriter() that returns normally on a present handle leaves
\* the write direction shut down and the read direction as it was, and
\* shutdownReader() the other way round; neither changes fd, calls close or
\* closes the descriptor, however it ends.
C14_HalfCloseOneDirection ==
    [][/\ (lastCall'.op = "shutdownWriter" /\ fd # Absent /\ lastCall'.result = Returned) =>
             (~writerOpen' /\ readerOpen' = readerOpen)
       /\ (lastCall'.op = "shutdownReader" /\ fd # Absent /\ lastCall'.result = Returned) =>
             (~readerOpen' /\ writerOpen' = writerOpen)
       /\ lastCall'.op \in {"shutdownReader", "shutdownWriter"} =>
             /\ lastCall'.prims \in {<< >>, << "shutdown" >>}
             /\ UNCHANGED << fd, streamOpen, closeCalls, wire >>]_vars

\* Headers, a body block, then shutdownWriter(): the read side is still open.
C14_Witness ==
    /\ lastCall.op = "shutdownWriter" /\ lastCall.result = Returned
    /\ wire = Frame(<< >>) \o << 1 >>
    /\ readerOpen /\ ~writerOpen /\ streamOpen /\ fd = Handle /\ closeCalls = 0

\* C15 as stated: when sendHeaders() has returned normally the stream carries
\* its framed message and nothing else, and when sendBodyBlock() has written
\* a block the bytes before the block start with a complete framed message.
C15_HeadersFirstAndOnce ==
    /\ (lastCall.op = "sendHeaders" /\ lastCall.result = Returned) =>
          wire = Frame(lastCall.arg)
    /\ (lastCall.op = "sendBodyBlock" /\ lastCall.result = Returned /\ lastCall.arg # << >>) =>
          ReadScalars(SubSeq(wire, 1, Len(wire) - Len(lastCall.arg))).msgs # << >>

\* C15, amended: a sendHeaders() that returns normally on a stream that
\* carries nothing yet leaves exactly its framed message on it; every
\* operation only appends to the stream, so the first framed message on it
\* stays the first; and sendBodyBlock() writes through writeRaw only.
C15_FirstFrameStaysFirst ==
    [][/\ (wire = << >> /\ lastCall'.op = "sendHeaders" /\ lastCall'.result = Returned) =>
             ReadScalars(wire') = [msgs |-> << lastCall'.arg >>, rest |-> << >>]
       /\ Len(wire') >= Len(wire)
       /\ SubSeq(wire', 1, Len(wire)) = wire
       /\ wire' # wire =>
             LET before == ReadScalars(wire).msgs
                 after  == ReadScalars(wire').msgs
             IN  before # << >> => (after # << >> /\ after[1] = before[1])
       /\ lastCall'.op = "sendBodyBlock" => lastCall'.prims \in {<< >>, << "writeRaw" >>}]_vars

\* A body block written after the framed headers.
C15_Witness ==
    /\ lastCall.op = "sendBodyBlock" /\ lastCall.result = Returned /\ lastCall.arg = << 1 >>
    /\ wire = Frame(<< >>) \o << 1 >>
    /\ ReadScalars(wire) = [msgs |-> << << >> >>, rest |-> << 1 >>]

TimeoutOps == {"setReaderTimeout", "setWriterTimeout"}

\* C16 as stated: the timeout primitives are never invoked with -1 as their
\* descriptor.
C16_TimeoutNeverOnAbsent ==
    lastPrim.name \in {"setReadTimeout", "setWriteTimeout"} => lastPrim.handle # Absent

\* C16, amended: setReaderTimeout() and setWriterTimeout() invoke their
\* timeout primitive once, with the current value of fd: the descriptor given
\* to the constructor while the handle is present, -1 after closeStream() or
\* discardStream().  They change nothing of the session.
C16_TimeoutOnCurrentFd ==
    [][lastCall'.op \in TimeoutOps =>
          /\ lastPrim'.name = (IF lastCall'.op = "setReaderTimeout"
                               THEN "setReadTimeout" ELSE "setWriteTimeout")
          /\ lastCall'.prims = << lastPrim'.name >>
          /\ lastPrim'.handle = fd
          /\ fd # Absent => lastPrim'.handle = Handle
          /\ UNCHANGED << fd, streamOpen, readerOpen, writerOpen, wire, alive,
                          callbackCalls, closeCalls, discarded, poolIdentifier >>]_vars

\* setWriterTimeout() on a session whose stream was closed or discarded.
C16_Witness ==
    /\ lastCall.op = "setWriterTimeout" /\ fd = Absent
    /\ lastPrim.name = "setWriteTimeout" /\ lastPrim.handle = Absent

\* The operations that assign fd.
HandleOps == {"closeStream", "discardStream", "~StandardSession"}

\* C18: no operation other than closeStream(), discardStream() and the
\* destructor changes fd, whether it succeeds or fails; and closeStream() or
\* the destructor on a present handle calls syscalls::close() on it.
C18_OnlyCloseDiscardDestroyChangeFd ==
    [][/\ lastCall'.op \notin HandleOps => fd' = fd
       /\ (fd # Absent /\ lastCall'.op \in {"closeStream", "~StandardSession"}) =>
             /\ lastCall'.prims # << >>
             /\ lastCall'.prims[1] = "close"
             /\ lastPrim'.handle = fd
             /\ closeCalls' = closeCalls + 1]_vars

\* A sendBodyBlock() that failed in the write: the handle is still present.
C18_Witness ==
    /\ lastCall.op = "sendBodyBlock" /\ lastCall.result.kind = "SystemException"
    /\ lastCall.prims = << "writeRaw" >> /\ fd = Handle /\ streamOpen /\ alive


====
